---- MODULE Spec2Model ----
(***************************************************************************)
(* Model of js/sales-revenue.js: the sales-revenue dashboard.              *)
(*                                                                         *)
(* The page is a state machine: the four metric text nodes, the two chart  *)
(* handles and the registry of live Chart instances, the legend container, *)
(* the product container, the promises made by fetchData and the position  *)
(* of loadDashboardData.                                                   *)
(*                                                                         *)
(* JavaScript values are tagged records; JavaScript strings are TLA+       *)
(* strings (Len, \o and SubSeq give length, concatenation and substring).  *)
(* Characters outside ASCII are transliterated: the lira sign U+20BA is    *)
(* written "TL", and the Turkish letters of the sample data are written    *)
(* with their ASCII base letters.                                          *)
(***************************************************************************)
EXTENDS Integers, Sequences, FiniteSets

VARIABLES
    textContent,          \* textContent of #totalRevenue, #conversionRate, #averageBasket, #totalOrders
    revenueTrendChart,    \* let revenueTrendChart   (line 15)
    salesByChannelChart,  \* let salesByChannelChart (line 16)
    instances,            \* the live (created, not destroyed) Chart instances
    channelLegends,       \* children of #channelLegends
    topSellingProducts,   \* children of #topSellingProducts
    lastCall,             \* the updater call made last and how it ended
    mock,                 \* which responses the table fetchData reads holds
    promises,             \* the promises fetchData has returned
    pc,                   \* position of loadDashboardData
    log                   \* what loadDashboardData has done so far, in order

vars == <<textContent, revenueTrendChart, salesByChannelChart, instances,
          channelLegends, topSellingProducts, lastCall, mock, promises, pc, log>>

-----------------------------------------------------------------------------
(* Bounds of the model.                                                    *)

\* Longest label array handed to the channel updater.
MaxLabels == 6
\* Longest product array built from ProductPool.
MaxProducts == 2
\* Most fetchData calls made by the free-standing caller.
MaxFetches == 2

-----------------------------------------------------------------------------
(* JavaScript values.                                                      *)

Undefined == [t |-> "undefined"]
Null == [t |-> "null"]
Str(s) == [t |-> "string", s |-> s]
\* The number n / 10^scale.
Dec(n, scale) == [t |-> "number", n |-> n, scale |-> scale]
Num(n) == Dec(n, 0)
Arr(a) == [t |-> "array", a |-> a]
Obj(f) == [t |-> "object", f |-> f]

\* ToBoolean, as `if (v)`, `v && ...` and `v || ...` apply it.
Truthy(v) ==
    CASE v.t = "undefined" -> FALSE
      [] v.t = "null" -> FALSE
      [] v.t = "string" -> v.s # ""
      [] v.t = "number" -> v.n # 0
      [] OTHER -> TRUE

\* v.k for a value that is neither null nor undefined.
Get(v, k) ==
    CASE v.t = "object" -> IF k \in DOMAIN v.f THEN v.f[k] ELSE Undefined
      [] v.t = "array" /\ k = "length" -> Num(Len(v.a))
      [] v.t = "string" /\ k = "length" -> Num(Len(v.s))
      [] OTHER -> Undefined

\* Whether v.k throws a TypeError (property access on null or undefined).
GetThrows(v) == v.t \in {"undefined", "null"}

Digits == <<"0", "1", "2", "3", "4", "5", "6", "7", "8", "9">>

\* Number.prototype.toString for a non-negative integer.
RECURSIVE NatToString(_)
NatToString(n) ==
    IF n < 10 THEN Digits[n + 1]
    ELSE NatToString(n \div 10) \o Digits[(n % 10) + 1]

\* The three-digit group g of a grouped number, zero padded.
Group3(g) == Digits[(g \div 100) + 1] \o Digits[((g \div 10) % 10) + 1] \o Digits[(g % 10) + 1]

\* Number.prototype.toLocaleString('tr-TR') for a non-negative integer:
\* groups of three digits separated by "." (45600 -> "45.600").
RECURSIVE ToLocaleStringTR(_)
ToLocaleStringTR(n) ==
    IF n < 1000 THEN NatToString(n)
    ELSE ToLocaleStringTR(n \div 1000) \o "." \o Group3(n % 1000)

\* ToString, as a template literal `${v}` and textContent = v apply it, for
\* undefined, null, strings, non-negative integers and plain objects.
ToStr(v) ==
    CASE v.t = "undefined" -> "undefined"
      [] v.t = "null" -> "null"
      [] v.t = "string" -> v.s
      [] v.t = "number" /\ v.scale = 0 -> NatToString(v.n)
      [] OTHER -> "[object Object]"

\* String.prototype.includes: needle occurs in hay as a substring.
Includes(hay, needle) ==
    \E i \in 1..(Len(hay) - Len(needle) + 1) :
        SubSeq(hay, i, i + Len(needle) - 1) = needle

\* Array.prototype.slice(0, end) with end a number or undefined.
Slice0(a, end) ==
    IF end.t = "number"
    THEN SubSeq(a, 1, IF end.n < Len(a) THEN end.n ELSE Len(a))
    ELSE a

\* a[index] for a zero-based index; undefined past the end.
At(a, index) == IF index + 1 \in DOMAIN a THEN a[index + 1] ELSE Undefined

-----------------------------------------------------------------------------
(* The constants of the source.                                            *)

API_ENDPOINTS ==
    [metrics |-> "https://api.example.com/dashboard/metrics",
     revenueTrend |-> "https://api.example.com/dashboard/revenue-trend",
     salesByChannel |-> "https://api.example.com/dashboard/sales-by-channel",
     topSellingProducts |-> "https://api.example.com/dashboard/top-selling-products"]

CHART_COLORS ==
    [primaryPurple |-> "#886FE4",
     secondaryPurple |-> "#E0B8FF",
     blueAccent |-> "#6495ED",
     redAccent |-> "#FF6384",
     textLight |-> "#F0F0F0",
     textMuted |-> "#A0A0A0",
     gridColor |-> "rgba(255, 255, 255, 0.1)",
     cardBg |-> "#0F3460"]

\* const channelColors; the fifth entry is commented "for the others".
channelColors ==
    <<Str("#886FE4"), Str("#E0B8FF"), Str("#6A5ACD"), Str("#9370DB"), Str("#A9A9A9")>>

\* The `|| '...'` defaults of updateMetrics, by target element.
MetricDefaults ==
    [totalRevenue |-> "$2.4M",
     conversionRate |-> "3.47%",
     averageBasket |-> "TL347",
     totalOrders |-> "6,847"]

MetricIds == DOMAIN MetricDefaults

MOCK_metrics ==
    Obj([totalRevenue |-> Str("TL2.4M"),
         conversionRate |-> Str("3.47%"),
         averageBasket |-> Str("TL347"),
         totalOrders |-> Str("6,847"),
         totalRevenueChange |-> Dec(125, 1),
         conversionRateChange |-> Dec(32, 1),
         averageBasketChange |-> Dec(81, 1),
         totalOrdersChange |-> Dec(153, 1)])

MOCK_revenueTrend ==
    Obj([labels |-> Arr(<<Str("Oca"), Str("Sub"), Str("Mar"), Str("Nis"), Str("May"), Str("Haz")>>),
         values |-> Arr(<<Num(350000), Num(380000), Num(360000), Num(420000), Num(450000), Num(480000)>>)])

MOCK_salesByChannel ==
    Obj([labels |-> Arr(<<Str("Web Sitesi"), Str("Mobil App"), Str("Sosyal Medya"), Str("Magaza")>>),
         values |-> Arr(<<Num(40), Num(25), Num(20), Num(15)>>)])

Product(name, price, iconUrl, iconBgColor) ==
    Obj([name |-> Str(name), price |-> Num(price),
         iconUrl |-> Str(iconUrl), iconBgColor |-> Str(iconBgColor)])

MOCK_topSellingProducts ==
    Arr(<<Product("Laptop Pro", 45600, "https://via.placeholder.com/60/7B68EE/FFFFFF?text=L", "#7B68EE"),
          Product("Akilli Telefon", 28900, "https://via.placeholder.com/60/66CDAA/FFFFFF?text=T", "#66CDAA"),
          Product("Kulaklik", 1250, "https://via.placeholder.com/60/9370DB/FFFFFF?text=H", "#9370DB"),
          Product("Tablet", 8750, "https://via.placeholder.com/60/ADD8E6/FFFFFF?text=B", "#ADD8E6"),
          Product("Kamera", 15600, "https://via.placeholder.com/60/FF6347/FFFFFF?text=C", "#FF6347"),
          Product("Akilli Saat", 7200, "https://via.placeholder.com/60/FFD700/FFFFFF?text=W", "#FFD700")>>)

\* const MOCK_API_RESPONSES: the entries in Object.keys order.
MOCK_API_RESPONSES ==
    <<[key |-> "/dashboard/metrics", value |-> MOCK_metrics],
      [key |-> "/dashboard/revenue-trend", value |-> MOCK_revenueTrend],
      [key |-> "/dashboard/sales-by-channel", value |-> MOCK_salesByChannel],
      [key |-> "/dashboard/top-selling-products", value |-> MOCK_topSellingProducts]>>

-----------------------------------------------------------------------------
(* The view updaters.  Each is the function of the source: it reads the    *)
(* page's variables and yields the values its call leaves in the ones it   *)
(* writes, whether the call raised and, for a chart updater, whether it    *)
(* called destroy() on the chart it held.                                  *)

\* a || b
Or(a, b) == IF Truthy(a) THEN a ELSE b

\* function updateMetrics(data)
updateMetrics(data) ==
    IF Truthy(data)
    THEN [textContent |->
             [id \in MetricIds |-> ToStr(Or(Get(data, id), Str(MetricDefaults[id])))],
          raised |-> FALSE]
    ELSE [textContent |-> textContent, raised |-> FALSE]

\* The guard without its last conjunct: `data && data.labels`.
HasSeries_LabelsOnly(data) ==
    /\ Truthy(data)
    /\ Truthy(Get(data, "labels"))

\* `data && data.labels && data.values` of both chart updaters.
HasSeries(data) ==
    /\ Truthy(data)
    /\ Truthy(Get(data, "labels"))
    /\ Truthy(Get(data, "values"))

\* The updater without its destroy(): the live instances stay as they are.
DestroyIfHeld_Skipped(chart) == instances

\* `if (chart) { chart.destroy(); }`: the live instances after it.
DestroyIfHeld(chart) ==
    IF Truthy(chart) THEN instances \ {chart} ELSE instances

\* new Chart(ctx, config) among the live instances `live`: a new instance,
\* told from the others on its canvas by the lowest id none of them has.
NewChart(live, ctx, config) ==
    LET used == {c.id : c \in {x \in live : x.ctx = ctx}}
        id == CHOOSE n \in 1..(Cardinality(used) + 1) :
                  /\ n \notin used
                  /\ \A m \in 1..(n - 1) : m \in used
    IN  [t |-> "Chart", ctx |-> ctx, id |-> id, config |-> config]

\* function updateRevenueTrendChart(data)
updateRevenueTrendChart(data) ==
    IF HasSeries(data)
    THEN LET live == DestroyIfHeld(revenueTrendChart)
             chart == NewChart(live, "revenueTrendChart",
                               [type |-> "line",
                                labels |-> Get(data, "labels"),
                                data |-> Get(data, "values"),
                                backgroundColor |-> Str("rgba(136, 111, 228, 0.2)")])
         IN  [revenueTrendChart |-> chart, instances |-> live \cup {chart},
              destroyed |-> Truthy(revenueTrendChart), raised |-> FALSE]
    ELSE [revenueTrendChart |-> revenueTrendChart, instances |-> instances,
          destroyed |-> FALSE, raised |-> FALSE]

\* channelColors.slice(0, data.labels.length)
SliceColors(labels) == Slice0(channelColors, Get(labels, "length"))

\* function createChannelLegends(labels, colors): the container is emptied,
\* then labels.forEach appends a row per label; labels.forEach is not a
\* function unless labels is an array.
createChannelLegends(labels, colors) ==
    IF labels.t = "array"
    THEN [channelLegends |->
             [i \in 1..Len(labels.a) |->
                 [color |-> ToStr(At(colors, i - 1)), text |-> ToStr(labels.a[i])]],
          raised |-> FALSE]
    ELSE [channelLegends |-> <<>>, raised |-> TRUE]

\* function updateSalesByChannelChart(data)
updateSalesByChannelChart(data) ==
    IF HasSeries(data)
    THEN LET live == DestroyIfHeld(salesByChannelChart)
             chart == NewChart(live, "salesByChannelChart",
                               [type |-> "doughnut",
                                labels |-> Get(data, "labels"),
                                data |-> Get(data, "values"),
                                backgroundColor |-> Arr(SliceColors(Get(data, "labels")))])
             legend == createChannelLegends(Get(data, "labels"),
                                            SliceColors(Get(data, "labels")))
         IN  [salesByChannelChart |-> chart, instances |-> live \cup {chart},
              channelLegends |-> legend.channelLegends,
              destroyed |-> Truthy(salesByChannelChart), raised |-> legend.raised]
    ELSE [salesByChannelChart |-> salesByChannelChart, instances |-> instances,
          channelLegends |-> channelLegends, destroyed |-> FALSE, raised |-> FALSE]

\* s.charAt(0)
CharAt0(s) == IF Len(s) = 0 THEN "" ELSE SubSeq(s, 1, 1)

\* Whether building the card of `product` throws a TypeError:
\* product.name.charAt is reached only without an iconUrl and needs a string;
\* product.price.toLocaleString needs a price that is not null or undefined.
CardThrows(product) ==
    \/ GetThrows(product)
    \/ (~Truthy(Get(product, "iconUrl")) /\ Get(product, "name").t # "string")
    \/ GetThrows(Get(product, "price"))

\* product.price.toLocaleString('tr-TR')
PriceText(price) ==
    IF price.t = "number" /\ price.scale = 0
    THEN ToLocaleStringTR(price.n)
    ELSE ToStr(price)

\* The card the template literal of lines 266-274 builds.
ProductCard(product) ==
    [kind |-> "card",
     src |-> IF Truthy(Get(product, "iconUrl"))
             THEN ToStr(Get(product, "iconUrl"))
             ELSE "https://via.placeholder.com/60/ccc/fff?text="
                      \o CharAt0(Get(product, "name").s),
     alt |-> ToStr(Get(product, "name")),
     backgroundColor |-> ToStr(Or(Get(product, "iconBgColor"), Str("#3e2e60"))),
     name |-> ToStr(Get(product, "name")),
     price |-> "TL" \o PriceText(Get(product, "price"))]

\* The row of line 278.
NotFoundRow == [kind |-> "placeholder", text |-> "Urun bulunamadi."]

\* products.forEach(...) from element k on: a card is appended per product
\* until one throws.
RECURSIVE AppendCards(_, _, _)
AppendCards(items, k, children) ==
    IF k > Len(items) THEN [topSellingProducts |-> children, raised |-> FALSE]
    ELSE IF CardThrows(items[k]) THEN [topSellingProducts |-> children, raised |-> TRUE]
    ELSE AppendCards(items, k + 1, Append(children, ProductCard(items[k])))

\* products && products.length > 0
HasProducts(products) ==
    /\ Truthy(products)
    /\ Get(products, "length").t = "number"
    /\ Get(products, "length").n > 0

\* function updateTopSellingProducts(products)
updateTopSellingProducts(products) ==
    IF HasProducts(products)
    THEN IF products.t = "array"
         THEN AppendCards(products.a, 1, <<>>)
         ELSE [topSellingProducts |-> <<>>, raised |-> TRUE]
    ELSE [topSellingProducts |-> <<NotFoundRow>>, raised |-> FALSE]

-----------------------------------------------------------------------------
(* One call of an updater: the page after it.                              *)

Updaters ==
    {"updateMetrics", "updateRevenueTrendChart", "updateSalesByChannelChart",
     "updateTopSellingProducts"}

NoCall == [fn |-> "none", arg |-> Undefined, destroyed |-> FALSE, raised |-> FALSE]

CallUpdateMetrics(data) ==
    LET r == updateMetrics(data)
    IN  /\ textContent' = r.textContent
        /\ lastCall' = [fn |-> "updateMetrics", arg |-> data,
                        destroyed |-> FALSE, raised |-> r.raised]
        /\ UNCHANGED <<revenueTrendChart, salesByChannelChart, instances,
                       channelLegends, topSellingProducts>>

CallUpdateRevenueTrendChart(data) ==
    LET r == updateRevenueTrendChart(data)
    IN  /\ revenueTrendChart' = r.revenueTrendChart
        /\ instances' = r.instances
        /\ lastCall' = [fn |-> "updateRevenueTrendChart", arg |-> data,
                        destroyed |-> r.destroyed, raised |-> r.raised]
        /\ UNCHANGED <<textContent, salesByChannelChart, channelLegends,
                       topSellingProducts>>

CallUpdateSalesByChannelChart(data) ==
    LET r == updateSalesByChannelChart(data)
    IN  /\ salesByChannelChart' = r.salesByChannelChart
        /\ instances' = r.instances
        /\ channelLegends' = r.channelLegends
        /\ lastCall' = [fn |-> "updateSalesByChannelChart", arg |-> data,
                        destroyed |-> r.destroyed, raised |-> r.raised]
        /\ UNCHANGED <<textContent, revenueTrendChart, topSellingProducts>>

CallUpdateTopSellingProducts(products) ==
    LET r == updateTopSellingProducts(products)
    IN  /\ topSellingProducts' = r.topSellingProducts
        /\ lastCall' = [fn |-> "updateTopSellingProducts", arg |-> products,
                        destroyed |-> FALSE, raised |-> r.raised]
        /\ UNCHANGED <<textContent, revenueTrendChart, salesByChannelChart,
                       instances, channelLegends>>

-----------------------------------------------------------------------------
(* The data the updaters are called with.                                  *)

\* A metrics snapshot whose values differ from the defaults.
OtherMetrics ==
    [totalRevenue |-> Str("TL1.9M"),
     conversionRate |-> Str("2.05%"),
     averageBasket |-> Str("TL298"),
     totalOrders |-> Str("5,120")]

\* The sample snapshot; snapshots supplying all fields, all but one, or none;
\* and a full snapshot whose totalOrders is the number 0.
MetricsInputs ==
    {Null, MOCK_metrics, Obj(<<>>), Obj(OtherMetrics)}
        \cup {Obj([k \in MetricIds \ {e} |-> OtherMetrics[k]]) : e \in MetricIds}
        \cup {Obj([k \in MetricIds |->
                      IF k = "totalOrders" THEN Num(0) ELSE OtherMetrics[k]])}

TrendInputs ==
    {Null, Obj(<<>>), MOCK_revenueTrend,
     Obj([labels |-> Get(MOCK_revenueTrend, "labels")]),
     Obj([values |-> Get(MOCK_revenueTrend, "values")]),
     Obj([labels |-> Arr(<<>>), values |-> Arr(<<>>)])}

\* The i-th channel: the four of the sample data, then further ones.
ChannelLabel(i) ==
    IF i <= 4 THEN Get(MOCK_salesByChannel, "labels").a[i]
    ELSE Str("Kanal " \o NatToString(i))

ChannelValue(i) ==
    IF i <= 4 THEN Get(MOCK_salesByChannel, "values").a[i] ELSE Num(0)

\* A channel mix of n channels; ChannelMix(4) is the sample data.
ChannelMix(n) ==
    Obj([labels |-> Arr([i \in 1..n |-> ChannelLabel(i)]),
         values |-> Arr([i \in 1..n |-> ChannelValue(i)])])

\* A channel mix whose labels are not a sequence but an object keyed by
\* position, {"0": "Web Sitesi", "1": "Mobil App"}.
KeyedChannelMix ==
    Obj([labels |-> Obj([k \in {"0", "1"} |-> ChannelLabel(IF k = "0" THEN 1 ELSE 2)]),
         values |-> Arr(<<Num(60), Num(40)>>)])

ChannelInputs ==
    {Null, Obj(<<>>),
     Obj([labels |-> Get(MOCK_salesByChannel, "labels")]),
     Obj([values |-> Get(MOCK_salesByChannel, "values")]),
     KeyedChannelMix}
        \cup {ChannelMix(n) : n \in 0..MaxLabels}

\* A product without iconUrl, and one without price.
ProductPool ==
    {Obj([name |-> Str("Tablet"), price |-> Num(8750)]),
     Obj([name |-> Str("Kamera"), iconUrl |-> Str("https://via.placeholder.com/60/FF6347/FFFFFF?text=C")])}

\* Absent, the sample data, a product with neither name nor iconUrl, one
\* with an iconUrl and no name, and the arrays over ProductPool.
ProductInputs ==
    {Null, MOCK_topSellingProducts,
     Arr(<<Obj([price |-> Num(7200)])>>),
     Arr(<<Obj([price |-> Num(7200), iconUrl |-> Str("https://via.placeholder.com/60/FFD700/FFFFFF?text=W")])>>)}
        \cup {Arr(a) : a \in UNION {[1..n -> ProductPool] : n \in 0..MaxProducts}}

-----------------------------------------------------------------------------
(* The response table.  The page is loaded against the sample data of the  *)
(* source or against a table in which a response is not registered,        *)
(* incomplete or malformed; `mock` names the response under each key.      *)

\* A response not registered in the table.
Unregistered == [t |-> "unregistered"]

\* The responses a table may hold under each key.
Responses ==
    [metrics |->
        [sample |-> MOCK_metrics,
         unregistered |-> Unregistered,
         incomplete |-> Obj([k \in MetricIds \ {"totalOrders"} |-> OtherMetrics[k]])],
     revenueTrend |->
        [sample |-> MOCK_revenueTrend,
         unregistered |-> Unregistered,
         incomplete |-> Obj([labels |-> Get(MOCK_revenueTrend, "labels")])],
     salesByChannel |->
        [sample |-> MOCK_salesByChannel,
         unregistered |-> Unregistered,
         overflow |-> ChannelMix(MaxLabels),
         malformed |-> KeyedChannelMix],
     topSellingProducts |->
        [sample |-> MOCK_topSellingProducts,
         unregistered |-> Unregistered,
         empty |-> Arr(<<>>),
         malformed |-> Arr(<<Obj([name |-> Str("Tablet")])>>)]]

\* The table of the source.
SampleData ==
    [metrics |-> "sample", revenueTrend |-> "sample",
     salesByChannel |-> "sample", topSellingProducts |-> "sample"]

MockChoices ==
    {c \in [DOMAIN Responses -> {"sample", "unregistered", "incomplete", "overflow",
                                  "malformed", "empty"}] :
        \A k \in DOMAIN Responses : c[k] \in DOMAIN Responses[k]}

\* The table with the given responses, in the order of the source.
MockTable(metrics, revenueTrend, salesByChannel, topSelling) ==
    SelectSeq(<<[key |-> "/dashboard/metrics", value |-> metrics],
                [key |-> "/dashboard/revenue-trend", value |-> revenueTrend],
                [key |-> "/dashboard/sales-by-channel", value |-> salesByChannel],
                [key |-> "/dashboard/top-selling-products", value |-> topSelling]>>,
              LAMBDA e : e.value # Unregistered)

\* The table fetchData reads; under SampleData it is MOCK_API_RESPONSES.
MOCK ==
    MockTable(Responses.metrics[mock.metrics],
              Responses.revenueTrend[mock.revenueTrend],
              Responses.salesByChannel[mock.salesByChannel],
              Responses.topSellingProducts[mock.topSellingProducts])

-----------------------------------------------------------------------------
(* The page as the script finds it: no chart yet, the containers and the   *)
(* metric texts not yet written by the script.                             *)

InitPage ==
    /\ textContent = [id \in MetricIds |-> ""]
    /\ revenueTrendChart = Undefined
    /\ salesByChannelChart = Undefined
    /\ instances = {}
    /\ channelLegends = <<>>
    /\ topSellingProducts = <<>>
    /\ lastCall = NoCall

-----------------------------------------------------------------------------
(* Spec: the four updaters called in any order with any data.              *)

Init ==
    /\ InitPage
    /\ mock = SampleData
    /\ promises = <<>>
    /\ pc = "idle"
    /\ log = <<>>

Metrics ==
    /\ \E data \in MetricsInputs : CallUpdateMetrics(data)
    /\ UNCHANGED <<mock, promises, pc, log>>

RevenueTrend ==
    /\ \E data \in TrendInputs : CallUpdateRevenueTrendChart(data)
    /\ UNCHANGED <<mock, promises, pc, log>>

SalesByChannel ==
    /\ \E data \in ChannelInputs : CallUpdateSalesByChannelChart(data)
    /\ UNCHANGED <<mock, promises, pc, log>>

TopSellingProducts ==
    /\ \E products \in ProductInputs : CallUpdateTopSellingProducts(products)
    /\ UNCHANGED <<mock, promises, pc, log>>

Next == Metrics \/ RevenueTrend \/ SalesByChannel \/ TopSellingProducts

Spec == Init /\ [][Next]_vars

-----------------------------------------------------------------------------
(* fetchData and its promises.                                             *)

\* The lookup with the operands of includes exchanged: mockUrl.includes(url).
FindMockKey_Reversed(url) ==
    IF url.t # "string" THEN [threw |-> TRUE, key |-> Undefined]
    ELSE LET hits == {i \in DOMAIN MOCK : Includes(MOCK[i].key, url.s)}
         IN  IF hits = {} THEN [threw |-> FALSE, key |-> Undefined]
             ELSE [threw |-> FALSE,
                   key |-> Str(MOCK[CHOOSE i \in hits : \A j \in hits : i <= j].key)]

\* Object.keys(MOCK_API_RESPONSES).find(mockUrl => url.includes(mockUrl)):
\* the first key, in table order, that url contains; url.includes throws
\* unless url is a string.
FindMockKey(url) ==
    IF url.t # "string" THEN [threw |-> TRUE, key |-> Undefined]
    ELSE LET hits == {i \in DOMAIN MOCK : Includes(url.s, MOCK[i].key)}
         IN  IF hits = {} THEN [threw |-> FALSE, key |-> Undefined]
             ELSE [threw |-> FALSE,
                   key |-> Str(MOCK[CHOOSE i \in hits : \A j \in hits : i <= j].key)]

\* MOCK_API_RESPONSES[key]
Lookup(key) ==
    LET hits == {i \in DOMAIN MOCK : MOCK[i].key = key.s}
    IN  IF hits = {} THEN Undefined ELSE MOCK[CHOOSE i \in hits : TRUE].value

\* fetchData without its try/catch: what the try block throws rejects the
\* promise.
fetchData_NoCatch(url) ==
    LET found == FindMockKey(url)
    IN  IF found.threw
        THEN [url |-> url, state |-> "rejected", key |-> Undefined, value |-> Undefined]
        ELSE IF Truthy(found.key)
        THEN [url |-> url, state |-> "pending", key |-> found.key, value |-> Undefined]
        ELSE [url |-> url, state |-> "fulfilled", key |-> Undefined, value |-> Null]

\* async function fetchData(url): the promise it returns.  With a key the
\* promise is pending until its 500 ms timer fires; without one, and when
\* the try block throws, it is fulfilled with null.
fetchData(url) ==
    LET found == FindMockKey(url)
    IN  IF found.threw
        THEN [url |-> url, state |-> "fulfilled", key |-> Undefined, value |-> Null]
        ELSE IF Truthy(found.key)
        THEN [url |-> url, state |-> "pending", key |-> found.key, value |-> Undefined]
        ELSE [url |-> url, state |-> "fulfilled", key |-> Undefined, value |-> Null]

\* What a call of fetchData adds to the trace: the call, and its settling
\* when the promise is settled from the start.
FetchEvents(promise) ==
    IF promise.state = "pending"
    THEN <<[ev |-> "fetch", url |-> promise.url]>>
    ELSE <<[ev |-> "fetch", url |-> promise.url], [ev |-> "settle", url |-> promise.url]>>

\* setTimeout(() => resolve(MOCK_API_RESPONSES[key]), 500): the timer of
\* promise i fires.
TimerFires ==
    \E i \in DOMAIN promises :
        /\ promises[i].state = "pending"
        /\ promises' = [promises EXCEPT ![i].state = "fulfilled",
                                        ![i].value = Lookup(promises[i].key)]
        /\ log' = Append(log, [ev |-> "settle", url |-> promises[i].url])
        /\ UNCHANGED <<textContent, revenueTrendChart, salesByChannelChart, instances,
                       channelLegends, topSellingProducts, lastCall, mock, pc>>

-----------------------------------------------------------------------------
(* SpecFetch: fetchData called with any resource identifier.               *)

UrlInputs ==
    {Str(API_ENDPOINTS[k]) : k \in DOMAIN API_ENDPOINTS}
        \cup {Undefined,
              Str(""),
              Str("/dashboard/metrics"),
              Str("https://api.example.com/dashboard/orders"),
              Str("https://api.example.com/dashboard/revenue-trend?compare=/dashboard/metrics")}

Fetch ==
    /\ Len(promises) < MaxFetches
    /\ \E url \in UrlInputs :
        /\ promises' = Append(promises, fetchData(url))
        /\ log' = log \o FetchEvents(fetchData(url))
    /\ UNCHANGED <<textContent, revenueTrendChart, salesByChannelChart, instances,
                   channelLegends, topSellingProducts, lastCall, mock, pc>>

NextFetch == Fetch \/ TimerFires

SpecFetch == Init /\ [][NextFetch]_vars

-----------------------------------------------------------------------------
(* SpecLoad: one run of loadDashboardData, started by DOMContentLoaded.    *)

\* The steps of loadDashboardData: the updater of each and the endpoint
\* fetched for it.
Steps ==
    <<[data |-> "metricsData", fn |-> "updateMetrics",
       url |-> Str(API_ENDPOINTS.metrics)],
      [data |-> "revenueTrendData", fn |-> "updateRevenueTrendChart",
       url |-> Str(API_ENDPOINTS.revenueTrend)],
      [data |-> "salesByChannelData", fn |-> "updateSalesByChannelChart",
       url |-> Str(API_ENDPOINTS.salesByChannel)],
      [data |-> "topSellingProductsData", fn |-> "updateTopSellingProducts",
       url |-> Str(API_ENDPOINTS.topSellingProducts)]>>

\* loadDashboardData suspended at the await of step k.
Await(k) == "await " \o Steps[k].data

\* `const x = await fetchData(url)`: the call of step k.
StartFetch(k) ==
    /\ promises' = Append(promises, fetchData(Steps[k].url))
    /\ log' = log \o FetchEvents(fetchData(Steps[k].url))
    /\ pc' = Await(k)

\* loadDashboardData with the four fetches started before the first await.
Load_AllAtOnce ==
    /\ pc = "DOMContentLoaded"
    /\ promises' = [k \in DOMAIN Steps |-> fetchData(Steps[k].url)]
    /\ log' = [k \in DOMAIN Steps |-> [ev |-> "fetch", url |-> Steps[k].url]]
    /\ pc' = Await(1)
    /\ UNCHANGED <<textContent, revenueTrendChart, salesByChannelChart, instances,
                   channelLegends, topSellingProducts, lastCall, mock>>

\* loadDashboardData() of line 302, up to its first await.
Load ==
    /\ pc = "DOMContentLoaded"
    /\ StartFetch(1)
    /\ UNCHANGED <<textContent, revenueTrendChart, salesByChannelChart, instances,
                   channelLegends, topSellingProducts, lastCall, mock>>

\* What follows the update statement of step k (traced as "update" whether
\* or not it called the updater): the next fetch while the update did not
\* raise, and the end of the run.  The code between two awaits runs
\* without interruption, so the update and the next call are one step.
Continue(k) ==
    IF lastCall'.raised
    THEN /\ pc' = "rejected"
         /\ promises' = promises
         /\ log' = Append(log, [ev |-> "update", url |-> Steps[k].url])
    ELSE IF k < Len(Steps)
    THEN /\ promises' = Append(promises, fetchData(Steps[k + 1].url))
         /\ log' = Append(log, [ev |-> "update", url |-> Steps[k].url])
                       \o FetchEvents(fetchData(Steps[k + 1].url))
         /\ pc' = Await(k + 1)
    ELSE /\ pc' = "done"
         /\ promises' = promises
         /\ log' = Append(log, [ev |-> "update", url |-> Steps[k].url])

\* The awaited promise of step k has settled.
Settled(k) ==
    /\ pc = Await(k)
    /\ promises[k].state = "fulfilled"

\* lines 284-285
AfterMetrics ==
    /\ Settled(1)
    /\ CallUpdateMetrics(promises[1].value)
    /\ Continue(1)
    /\ UNCHANGED mock

\* lines 287-288
AfterRevenueTrend ==
    /\ Settled(2)
    /\ CallUpdateRevenueTrendChart(promises[2].value)
    /\ Continue(2)
    /\ UNCHANGED mock

\* lines 290-295: the updater is called only with data that is present.
AfterSalesByChannel ==
    /\ Settled(3)
    /\ IF Truthy(promises[3].value)
       THEN CallUpdateSalesByChannelChart(promises[3].value)
       ELSE UNCHANGED <<textContent, revenueTrendChart, salesByChannelChart, instances,
                        channelLegends, topSellingProducts, lastCall>>
    /\ Continue(3)
    /\ UNCHANGED mock

\* lines 297-298
AfterTopSellingProducts ==
    /\ Settled(4)
    /\ CallUpdateTopSellingProducts(promises[4].value)
    /\ Continue(4)
    /\ UNCHANGED mock

InitLoad ==
    /\ InitPage
    /\ mock \in MockChoices
    /\ promises = <<>>
    /\ pc = "DOMContentLoaded"
    /\ log = <<>>

NextLoad ==
    \/ Load
    \/ TimerFires
    \/ AfterMetrics
    \/ AfterRevenueTrend
    \/ AfterSalesByChannel
    \/ AfterTopSellingProducts

SpecLoad == InitLoad /\ [][NextLoad]_vars

\* Every timer fires and every continuation whose promise has settled runs.
SpecLoadFair == SpecLoad /\ WF_vars(NextLoad)

-----------------------------------------------------------------------------
(* Properties.                                                             *)

Canvases == {"revenueTrendChart", "salesByChannelChart"}

\* The live chart instances bound to a canvas.
LiveOn(ctx) == {c \in instances : c.ctx = ctx}

\* Absent data.
Absent(v) == v.t \in {"null", "undefined"}

\* A payload without the field k.
Missing(data, k) == data.t = "object" /\ k \notin DOMAIN data.f

\* A payload with both labels and values.
HasBoth(data) == data.t = "object" /\ {"labels", "values"} \subseteq DOMAIN data.f

\* The labels of a payload, in order: the elements of an array, the members
\* "0", "1", ... of an object keyed by position.
LabelsOf(labels) ==
    IF labels.t = "array" THEN labels.a
    ELSE [i \in 1..Cardinality(DOMAIN labels.f) |-> labels.f[NatToString(i - 1)]]

\* C1: each canvas has at most one live chart instance, and it is the one
\* its updater holds: a chart created on a canvas replaces the one before.
C1_OneLiveChartPerCanvas ==
    /\ \A ctx \in Canvases : Cardinality(LiveOn(ctx)) <= 1
    /\ LiveOn("revenueTrendChart") \subseteq {revenueTrendChart}
    /\ LiveOn("salesByChannelChart") \subseteq {salesByChannelChart}

\* A trend-chart call that found a chart, destroyed it and created its own,
\* with a doughnut chart live on the other canvas.
C1_Witness ==
    /\ lastCall.fn = "updateRevenueTrendChart"
    /\ lastCall.destroyed
    /\ LiveOn("revenueTrendChart") = {revenueTrendChart}
    /\ Cardinality(LiveOn("salesByChannelChart")) = 1

\* C3: after a channel-chart call with N labels, slice i and legend swatch i
\* have the i-th palette entry for i <= 4 and the overflow color '#A9A9A9'
\* for every i > 4.
C3_ChannelColors ==
    (/\ lastCall.fn = "updateSalesByChannelChart"
     /\ HasBoth(lastCall.arg)
     /\ lastCall.arg.f.labels.t = "array")
    => \A i \in 1..Len(lastCall.arg.f.labels.a) :
           LET want == IF i <= 4
                       THEN <<"#886FE4", "#E0B8FF", "#6A5ACD", "#9370DB">>[i]
                       ELSE "#A9A9A9"
           IN  /\ ToStr(At(salesByChannelChart.config.backgroundColor.a, i - 1)) = want
               /\ channelLegends[i].color = want

\* C4: no call of a view updater raises, whatever its data.
C4_UpdatersNeverRaise == ~lastCall.raised

\* C5: after updateMetrics with a present snapshot, each target shows the
\* snapshot's value of its field when the snapshot supplies the field, and
\* the field's default when it does not.
C5_MetricsShowSuppliedValue ==
    (lastCall.fn = "updateMetrics" /\ lastCall.arg.t = "object")
    => \A id \in MetricIds :
           textContent[id] = IF id \in DOMAIN lastCall.arg.f
                             THEN ToStr(lastCall.arg.f[id])
                             ELSE MetricDefaults[id]

\* C7: after a products call the container holds one 'not found' row and no
\* card when the input was absent or empty, and otherwise one card per
\* product, in input order, and nothing else.
C7_ProductsReflectLastCall ==
    lastCall.fn = "updateTopSellingProducts"
    => IF Absent(lastCall.arg) \/ lastCall.arg = Arr(<<>>)
       THEN /\ Len(topSellingProducts) = 1
            /\ topSellingProducts[1].kind = "placeholder"
       ELSE /\ Len(topSellingProducts) = Len(lastCall.arg.a)
            /\ \A i \in 1..Len(topSellingProducts) :
                   /\ topSellingProducts[i].kind = "card"
                   /\ topSellingProducts[i].name = ToStr(Get(lastCall.arg.a[i], "name"))

\* C8: the legend holds one row per label of the most recent channel call
\* that had labels and values (the labels the live doughnut chart was made
\* with), in label order, and swatch i has the color given to slice i.
C8_LegendMatchesChart ==
    Truthy(salesByChannelChart)
    => LET labels == LabelsOf(salesByChannelChart.config.labels)
       IN  /\ Len(channelLegends) = Len(labels)
           /\ \A i \in 1..Len(channelLegends) :
                  /\ channelLegends[i].text = ToStr(labels[i])
                  /\ channelLegends[i].color =
                         ToStr(At(salesByChannelChart.config.backgroundColor.a, i - 1))

\* A call with absent data, or a chart call with data missing labels or values.
NoOpInput(call) ==
    \/ call.fn = "updateMetrics" /\ Absent(call.arg)
    \/ /\ call.fn \in {"updateRevenueTrendChart", "updateSalesByChannelChart"}
       /\ \/ Absent(call.arg)
          \/ Missing(call.arg, "labels")
          \/ Missing(call.arg, "values")

\* C10: a call of updateMetrics with absent data, or of a chart updater with
\* absent data or data missing labels or values, leaves the metric texts,
\* both chart handles, the live charts and the legend as they were.
C10_AbsentDataChangesNothing ==
    [][NoOpInput(lastCall')
          => UNCHANGED <<textContent, revenueTrendChart, salesByChannelChart,
                         instances, channelLegends>>]_vars

\* A channel call without values made while a doughnut chart was live and
\* the legend and the metric texts were filled: all are still there.
C10_Witness ==
    /\ lastCall.fn = "updateSalesByChannelChart"
    /\ Missing(lastCall.arg, "values")
    /\ LiveOn("salesByChannelChart") = {salesByChannelChart}
    /\ Len(channelLegends) = 4
    /\ textContent.totalRevenue # ""

\* The payload the source registers for each configured endpoint.
SampleResponse ==
    [metrics |-> MOCK_metrics,
     revenueTrend |-> MOCK_revenueTrend,
     salesByChannel |-> MOCK_salesByChannel,
     topSellingProducts |-> MOCK_topSellingProducts]

\* The payloads registered under a key that the identifier contains.
Registered(url) ==
    IF url.t # "string" THEN {}
    ELSE {MOCK_API_RESPONSES[j].value :
             j \in {i \in DOMAIN MOCK_API_RESPONSES :
                       Includes(url.s, MOCK_API_RESPONSES[i].key)}}

\* C6: a promise of fetchData is never rejected; once settled it holds a
\* payload registered for its identifier, or null when none is registered
\* or the lookup failed; and for a configured endpoint it holds that
\* endpoint's own payload.
C6_FetchSettlesWithPayloadOrNull ==
    \A i \in DOMAIN promises :
        LET p == promises[i]
        IN  /\ p.state # "rejected"
            /\ p.state = "fulfilled"
                  => /\ IF Registered(p.url) = {} THEN p.value = Null
                        ELSE p.value \in Registered(p.url)
                     /\ \A k \in DOMAIN API_ENDPOINTS :
                            p.url = Str(API_ENDPOINTS[k]) => p.value = SampleResponse[k]

\* Two settled fetches: one of a configured endpoint, holding its payload,
\* and one whose identifier is not a string, holding null.
C6_Witness ==
    \E i, j \in DOMAIN promises :
        /\ promises[i].url = Str(API_ENDPOINTS.salesByChannel)
        /\ promises[i].state = "fulfilled"
        /\ promises[i].value = MOCK_salesByChannel
        /\ promises[j].url = Undefined
        /\ promises[j].state = "fulfilled"
        /\ promises[j].value = Null

\* The trace of a complete run: fetch, settle and update of the metrics,
\* then of the trend, the channel mix and the products.
FixedOrder ==
    LET of(url) == <<[ev |-> "fetch", url |-> Str(url)],
                     [ev |-> "settle", url |-> Str(url)],
                     [ev |-> "update", url |-> Str(url)]>>
    IN  of(API_ENDPOINTS.metrics) \o of(API_ENDPOINTS.revenueTrend)
            \o of(API_ENDPOINTS.salesByChannel) \o of(API_ENDPOINTS.topSellingProducts)

\* The fetches started and not yet settled.
InFlight == {i \in DOMAIN promises : promises[i].state = "pending"}

\* C2: what a run of loadDashboardData has done is a prefix of the fixed
\* order (a fetch starts only after the previous resource's fetch settled
\* and its update ran), and at most one fetch is in flight.
C2_SequentialLoad ==
    /\ Len(log) <= Len(FixedOrder)
    /\ log = SubSeq(FixedOrder, 1, Len(log))
    /\ Cardinality(InFlight) <= 1

\* A run that went through all four fetches and updates.
C2_Witness ==
    /\ pc = "done"
    /\ log = FixedOrder
    /\ Len(promises) = 4

\* The run is over, no update raised, and every region is filled: four
\* metric texts, a live line chart, a live doughnut chart with four legend
\* rows, six product cards.
Terminal ==
    /\ pc = "done"
    /\ ~lastCall.raised
    /\ Cardinality({e \in DOMAIN log : log[e].ev = "update"}) = 4
    /\ \A id \in MetricIds : textContent[id] # ""
    /\ LiveOn("revenueTrendChart") = {revenueTrendChart}
    /\ revenueTrendChart.config.type = "line"
    /\ LiveOn("salesByChannelChart") = {salesByChannelChart}
    /\ salesByChannelChart.config.type = "doughnut"
    /\ Len(channelLegends) = 4
    /\ Len(topSellingProducts) = 6
    /\ \A i \in DOMAIN topSellingProducts : topSellingProducts[i].kind = "card"

\* C9: a run against the sample data whose timers all fire reaches the
\* terminal state, and nothing happens after it.
C9_SampleRunCompletes ==
    /\ (mock = SampleData) => <>Terminal
    /\ [][Terminal => UNCHANGED vars]_vars

\* The terminal state of the run against the sample data.
C9_Witness ==
    /\ mock = SampleData
    /\ Terminal
    /\ InFlight = {}

====
